---------------------------- MODULE Spec2Model ----------------------------
(***************************************************************************)
(* A model of the trivia REST backend (backend/flaskr/__init__.py).        *)
(*                                                                         *)
(* The state is the relational store (the questions and categories tables  *)
(* and the questions id sequence), the request being handled, the last     *)
(* response, and the position of the play handler inside its               *)
(* reject-and-resample loop.  Every HTTP handler is one action; play is    *)
(* two (reading the payload, then one loop iteration per step) because     *)
(* its loop need not terminate.                                            *)
(***************************************************************************)
EXTENDS Integers, Sequences, FiniteSets

\* ------------------------------------------------------------- bounds

\* Largest question id the questions id sequence hands out.
MaxId == 2
\* Number of rows of the categories table (ids 1..NumCategories).
NumCategories == 2
\* Longest previous_questions list a client sends in an arbitrary request.
MaxPrev == 2
\* page query arguments range over -MaxPage..MaxPage.
MaxPage == 2
\* Largest store of the pagination specification.
MaxQuestions == 12

\* ---------------------------------------------------- program constants

QUESTIONS_PER_PAGE == 10

\* ------------------------------------------------------------- values

QuestionIds == 1..MaxId
CategoryIds == 1..NumCategories
\* quiz_category.id / <int:category_id>: 0, every known id, one unknown id.
CategorySelectors == 0..(NumCategories + 1)

\* A JSON key that the request body does not carry (dict.get -> None,
\* dict[...] -> KeyError).
Absent == "<absent>"
\* Texts of at most one character; "" is the empty string.
QuestionText == "a"
AnswerText == "z"
BodyTexts == {Absent, "", QuestionText}
AnswerTexts == {Absent, "", AnswerText}
SearchTerms == {"", "a", "A", "b"}

\* request.args "page": given or not, and its integer value.
NoPage == [given |-> FALSE, value |-> 0]
PageArgs == {NoPage} \cup {[given |-> TRUE, value |-> p] : p \in (0 - MaxPage)..MaxPage}

VARIABLES
    questions,        \* questions table: id -> [category, question, answer]
    categories,       \* categories table: the set of category ids
    nextId,           \* next value of the questions id sequence
    request,          \* the request being (or last) handled
    response,         \* the response to it (status 0: none yet)
    pc,               \* "idle", or "play" inside play's while loop
    random_question   \* play's local: id of the last draw (0: none yet)

vars == <<questions, categories, nextId, request, response, pc, random_question>>

\* ------------------------------------------------------------ helpers

Range(s) == {s[i] : i \in 1..Len(s)}

Min(a, b) == IF a < b THEN a ELSE b

Max(a, b) == IF a > b THEN a ELSE b

\* Python's seq[start:end], negative indices counting from the end.
PySlice(s, start, end) ==
    LET n == Len(s)
        lo == IF start < 0 THEN Max(n + start, 0) ELSE Min(start, n)
        hi == IF end < 0 THEN Max(n + end, 0) ELSE Min(end, n)
    IN  IF lo < hi THEN SubSeq(s, lo + 1, hi) ELSE <<>>

\* order_by(Question.id): the ids of S in increasing order.
RECURSIVE OrderById(_)
OrderById(S) ==
    IF S = {} THEN <<>>
    ELSE LET m == CHOOSE x \in S : \A y \in S : x <= y
         IN  <<m>> \o OrderById(S \ {m})

\* Question.format(): the JSON form of row id of table qs.
NoQuestion == [id |-> 0, question |-> "", answer |-> "", category |-> 0]

Format(qs, id) ==
    [id |-> id, question |-> qs[id].question, answer |-> qs[id].answer,
     category |-> qs[id].category]

FormatAll(qs, ids) == [i \in 1..Len(ids) |-> Format(qs, ids[i])]

\* str.lower on texts of at most one character.
Lower(s) == IF s = "A" THEN "a" ELSE IF s = "B" THEN "b" ELSE s

\* Question.question.ilike("%term%") on texts of at most one character.
Ilike(text, term) == term = "" \/ Lower(text) = Lower(term)

\* ---------------------------------------------------------- requests

NoRequest ==
    [op |-> "none", page |-> NoPage, id |-> 0, searchTerm |-> Absent,
     question |-> Absent, answer |-> Absent, category |-> 0,
     previous_questions |-> <<>>, quiz_category |-> 0]

\* --------------------------------------------------------- responses

NoResponse ==
    [status |-> 0, message |-> "", success |-> FALSE, questions |-> <<>>,
     total_questions |-> 0, categories |-> {}, current_category |-> 0,
     question |-> NoQuestion, previous_questions |-> <<>>]

Ok(status) == [NoResponse EXCEPT !.status = status]

bad_request == [NoResponse EXCEPT !.status = 400, !.message = "BAD REQUEST"]

not_found == [NoResponse EXCEPT !.status = 404, !.message = "RESOURCE NOT FOUND"]

unprocessable == [NoResponse EXCEPT !.status = 422, !.message = "UNPROCESSABLE ENTITY"]

server_error == [NoResponse EXCEPT !.status = 500, !.message = "SERVER ERROR"]

\* ------------------------------------------------------- pagination

\* request.args.get("page", 1, type=int)
PageOf(arg) == IF arg.given THEN arg.value ELSE 1

paginate_questions(selection, page_arg) ==
    LET start == (PageOf(page_arg) - 1) * QUESTIONS_PER_PAGE
        end == start + QUESTIONS_PER_PAGE
    IN  PySlice(selection, start, end)

\* ------------------------------------------------------------- store

\* Question.query.order_by(Question.id).all(), formatted.
AllQuestions(qs) == FormatAll(qs, OrderById(DOMAIN qs))

\* ...filter(Question.category == category_id).all(), formatted.
QuestionsOfCategory(qs, category_id) ==
    FormatAll(qs, OrderById({i \in DOMAIN qs : qs[i].category = category_id}))

\* ...filter(Question.question.ilike(f"%{search_term}%")).all(), formatted.
QuestionsMatching(qs, term) ==
    FormatAll(qs, OrderById({i \in DOMAIN qs : Ilike(qs[i].question, term)}))

\* Question.delete(): the table without row id.
Deleted(qs, id) == [i \in (DOMAIN qs) \ {id} |-> qs[i]]

\* Question.insert(): the table with a new row under the sequence's next id.
Inserted(qs, id, row) == [i \in (DOMAIN qs) \cup {id} |-> IF i = id THEN row ELSE qs[i]]

\* The stores the database can hold: rows only under ids the sequence has
\* handed out, each referring to a row of the categories table.
Stores(n) ==
    UNION {[S -> [category : CategoryIds, question : {QuestionText}, answer : {AnswerText}]]
           : S \in SUBSET (1..(n - 1))}

\* The shape of the state under Spec, FairSpec and SessionSpec.
TypeOK ==
    /\ nextId \in 1..(MaxId + 1)
    /\ questions \in Stores(nextId)
    /\ categories = CategoryIds
    /\ pc \in {"idle", "play"}
    /\ random_question \in 0..MaxId

Init ==
    /\ categories = CategoryIds
    /\ nextId \in 1..(MaxId + 1)
    /\ questions \in Stores(nextId)
    /\ request = NoRequest
    /\ response = NoResponse
    /\ pc = "idle"
    /\ random_question = 0

\* A handler that answers at once: the store after it, and its response.
Answer(req, qs, nxt, resp) ==
    /\ pc = "idle"
    /\ request' = req
    /\ questions' = qs
    /\ nextId' = nxt
    /\ response' = resp
    /\ UNCHANGED <<categories, pc, random_question>>

\* ---------------------------------------------------------- handlers

\* GET /categories
get_categories ==
    Answer([NoRequest EXCEPT !.op = "get_categories"], questions, nextId,
           [Ok(200) EXCEPT !.categories = categories])

\* GET /questions?page=
get_questions(page_arg) ==
    LET all == AllQuestions(questions)
        paginated_questions == paginate_questions(all, page_arg)
    IN  Answer([NoRequest EXCEPT !.op = "get_questions", !.page = page_arg],
               questions, nextId,
               IF Len(paginated_questions) = 0 THEN not_found
               ELSE [Ok(200) EXCEPT !.questions = paginated_questions,
                                    !.total_questions = Len(all),
                                    !.categories = categories])

delete_question_keeps_row(question_id) ==
    Answer([NoRequest EXCEPT !.op = "delete_question", !.id = question_id],
           questions, nextId,
           IF question_id \in DOMAIN questions THEN Ok(200) ELSE not_found)

\* DELETE /questions/<int:question_id>
delete_question(question_id) ==
    LET req == [NoRequest EXCEPT !.op = "delete_question", !.id = question_id]
    IN  IF question_id \in DOMAIN questions
        THEN Answer(req, Deleted(questions, question_id), nextId, Ok(200))
        ELSE Answer(req, questions, nextId, not_found)

\* The body check of line 131, in Python's evaluation order: a missing key
\* raises KeyError before the other field is looked at.
ValidateBody_question_only(body) ==
    IF body.question = Absent THEN "key_error"
    ELSE IF body.question = "" THEN "bad_request"
    ELSE IF body.answer = Absent THEN "key_error"
    ELSE "insert"

ValidateBody(body) ==
    IF body.question = Absent THEN "key_error"
    ELSE IF body.question = "" THEN "bad_request"
    ELSE IF body.answer = Absent THEN "key_error"
    ELSE IF body.answer = "" THEN "bad_request"
    ELSE "insert"

\* The JSON bodies of POST /questions.
Bodies ==
    [searchTerm : {Absent}, question : BodyTexts, answer : AnswerTexts,
     category : 1..(NumCategories + 1)]
    \cup [searchTerm : SearchTerms, question : {Absent}, answer : {Absent}, category : {0}]

BodyRequest(body, page_arg) ==
    [NoRequest EXCEPT !.op = "add_question_or_search", !.page = page_arg,
                      !.searchTerm = body.searchTerm, !.question = body.question,
                      !.answer = body.answer, !.category = body.category]

\* POST /questions.  insert_ok: whether Question(**request_body) and
\* question.insert() go through (any exception ends in 422); a row whose
\* category is no row of the categories table is never stored.
add_question_or_search(body, page_arg, insert_ok) ==
    LET req == BodyRequest(body, page_arg)
        stored == insert_ok /\ body.category \in categories
    IN  IF body.searchTerm # Absent
        THEN LET matching_questions == QuestionsMatching(questions, body.searchTerm)
                 paginated_questions == paginate_questions(matching_questions, page_arg)
             IN  Answer(req, questions, nextId,
                        [Ok(200) EXCEPT
                           !.questions = IF Len(matching_questions) # 0
                                         THEN paginated_questions ELSE <<>>,
                           !.total_questions = Len(matching_questions)])
        ELSE IF ValidateBody(body) = "key_error"
        THEN Answer(req, questions, nextId, server_error)
        ELSE IF ValidateBody(body) = "bad_request"
        THEN Answer(req, questions, nextId, bad_request)
        ELSE IF stored
        THEN /\ nextId <= MaxId
             /\ Answer(req,
                       Inserted(questions, nextId,
                                [category |-> body.category, question |-> body.question,
                                 answer |-> body.answer]),
                       nextId + 1,
                       [Ok(201) EXCEPT !.success = TRUE])
        ELSE Answer(req, questions, nextId, unprocessable)

\* GET /categories/<int:category_id>/questions?page=
get_questions_by_category(category_id, page_arg) ==
    LET qs == QuestionsOfCategory(questions, category_id)
        paginated_questions == paginate_questions(qs, page_arg)
        req == [NoRequest EXCEPT !.op = "get_questions_by_category",
                                 !.id = category_id, !.page = page_arg]
    IN  Answer(req, questions, nextId,
               IF Len(paginated_questions) = 0 THEN not_found
               \* Category.query.get(category_id).type: None has no type.
               ELSE IF category_id \notin categories THEN server_error
               ELSE [Ok(200) EXCEPT !.questions = paginated_questions,
                                    !.total_questions = Len(qs),
                                    !.current_category = category_id])

\* ----------------------------------------------------------- play

\* The list random.choice draws from: Question.query.all(), or
\* Question.query.filter(Question.category == category["id"]).all().
CandidatePool(qs, quiz_category) ==
    IF quiz_category = 0 THEN DOMAIN qs
    ELSE {i \in DOMAIN qs : qs[i].category = quiz_category}

Accepts_any(id, previous_questions) == TRUE

Accepts_seen(id, previous_questions) == id \in Range(previous_questions)

\* random_question.id not in previous_questions
Accepts(id, previous_questions) == id \notin Range(previous_questions)

play_response_not_appended(qs, id, previous_questions) ==
    [Ok(200) EXCEPT !.question = Format(qs, id),
                    !.previous_questions = previous_questions]

\* previous_questions.append(random_question.id); return jsonify(...)
play_response(qs, id, previous_questions) ==
    [Ok(200) EXCEPT !.question = Format(qs, id),
                    !.previous_questions = Append(previous_questions, id)]

\* POST /quizzes: the payload is read and the loop entered.
play(previous_questions, quiz_category) ==
    /\ pc = "idle"
    /\ request' = [NoRequest EXCEPT !.op = "play",
                                    !.previous_questions = previous_questions,
                                    !.quiz_category = quiz_category]
    /\ response' = NoResponse
    /\ random_question' = 0
    /\ pc' = "play"
    /\ UNCHANGED <<questions, categories, nextId>>

\* One iteration of `while True`: a draw from the pool (random.choice of an
\* empty list raises IndexError, an unhandled exception: 500), then the break
\* and the response, or the next iteration.
play_loop ==
    /\ pc = "play"
    /\ LET pool == CandidatePool(questions, request.quiz_category)
       IN  IF pool = {}
           THEN /\ response' = server_error
                /\ pc' = "idle"
                /\ UNCHANGED random_question
           ELSE \E q \in pool :
                  /\ random_question' = q
                  /\ IF Accepts(q, request.previous_questions)
                     THEN /\ response' = play_response(questions, q, request.previous_questions)
                          /\ pc' = "idle"
                     ELSE UNCHANGED <<response, pc>>
    /\ UNCHANGED <<questions, categories, nextId, request>>

\* ------------------------------------------------ the specifications

PrevLists == UNION {[1..n -> QuestionIds] : n \in 0..MaxPrev}

\* Any request may follow any other.  (With at most MaxId questions stored
\* only the first page of a search holds anything: PageSpec pages it.)
Next ==
    \/ get_categories
    \/ \E page_arg \in PageArgs : get_questions(page_arg)
    \/ \E question_id \in 0..MaxId : delete_question(question_id)
    \/ \E body \in Bodies, page_arg \in {NoPage}, insert_ok \in BOOLEAN :
          add_question_or_search(body, page_arg, insert_ok)
    \/ \E category_id \in CategorySelectors, page_arg \in PageArgs :
          get_questions_by_category(category_id, page_arg)
    \/ \E previous_questions \in PrevLists, quiz_category \in CategorySelectors :
          play(previous_questions, quiz_category)
    \/ play_loop

\* Requests arrive in any order; nothing is promised about progress.
Spec == Init /\ [][Next]_vars

\* random.choice gives every element of the pool a positive probability at
\* every draw, so a loop iteration that can break is not passed over for
\* ever: the iteration that ends the loop is taken if it stays possible.
play_loop_ends == play_loop /\ pc' = "idle"

FairSpec == Init /\ [][Next]_vars /\ WF_vars(play_loop) /\ WF_vars(play_loop_ends)

\* A quiz session over a fixed store: the first request carries the empty
\* list, every later one the list the preceding response returned.
session_start(quiz_category) == play(<<>>, quiz_category)

session_continue ==
    /\ request.op = "play"
    /\ response.status = 200
    /\ play(response.previous_questions, request.quiz_category)

SessionNext ==
    \/ \E quiz_category \in CategorySelectors : session_start(quiz_category)
    \/ session_continue
    \/ play_loop

SessionSpec == Init /\ [][SessionNext]_vars

\* Pagination over stores larger than a page: n rows, possibly with one id
\* missing, read by the three paginating handlers.
PageInit ==
    /\ categories = CategoryIds
    /\ \E n \in 0..MaxQuestions, hole \in 0..MaxQuestions :
          /\ hole <= n
          /\ nextId = n + 1
          /\ questions = [i \in (1..n) \ {hole} |->
                            [category |-> (i % NumCategories) + 1,
                             question |-> QuestionText, answer |-> AnswerText]]
    /\ request = NoRequest
    /\ response = NoResponse
    /\ pc = "idle"
    /\ random_question = 0

PageNext ==
    \/ \E page_arg \in PageArgs : get_questions(page_arg)
    \/ \E category_id \in CategorySelectors, page_arg \in PageArgs :
          get_questions_by_category(category_id, page_arg)
    \/ \E body \in {b \in Bodies : b.searchTerm # Absent}, page_arg \in PageArgs :
          add_question_or_search(body, page_arg, TRUE)

PageSpec == PageInit /\ [][PageNext]_vars

\* ------------------------------------------------------------ claims

\* The scope of the play request at hand, as the interface describes it:
\* every question for quiz_category.id 0, else the questions of that category.
Scope ==
    IF request.quiz_category = 0 THEN DOMAIN questions
    ELSE {i \in DOMAIN questions : questions[i].category = request.quiz_category}

\* The questions in scope that the request's previous_questions does not list.
Unseen == Scope \ Range(request.previous_questions)

\* The play request at hand has run at least one iteration of its loop.
PlayHandled == request.op = "play" /\ (response.status # 0 \/ random_question # 0)

PlaySucceeded == request.op = "play" /\ response.status = 200

\* An "exhausted" answer: the request is over, not with a server error, and
\* its payload carries no question.
ExhaustedOutcome ==
    pc = "idle" /\ response.status \in 200..499 /\ response.question = NoQuestion

\* C1: whenever play returns a question, its id is not in the request's
\* previous_questions, and it is a question of the request's scope (any
\* question for quiz_category.id 0, else one of that category).
C1_ReturnsUnseenFromPool ==
    PlaySucceeded =>
        /\ response.question.id \notin Range(request.previous_questions)
        /\ response.question.id \in Scope

\* A category-filtered request that lists a stored question as seen, over a
\* store that holds a question of another category, has been answered with
\* a question.
C1_Witness ==
    /\ PlaySucceeded
    /\ request.quiz_category # 0
    /\ (DOMAIN questions) \cap Range(request.previous_questions) # {}
    /\ Scope # DOMAIN questions

\* C2: a play request with no unseen question in scope (every id of the pool
\* listed, or the pool empty) is answered "exhausted" by its first loop
\* iteration: it is never still in the loop, and never ends in a server error.
C2_ExhaustedImmediately == (PlayHandled /\ Unseen = {}) => ExhaustedOutcome

\* The previous_questions of a session request lists no id twice and no more
\* ids than the scope holds (the part of C3 that the loop does guarantee).
SessionServedOnce ==
    request.op = "play" =>
        /\ \A i, j \in 1..Len(request.previous_questions) :
              request.previous_questions[i] = request.previous_questions[j] => i = j
        /\ Range(request.previous_questions) \subseteq Scope
        /\ PlaySucceeded => response.question.id \notin Range(request.previous_questions)

\* C3: in a session (each request carrying the list the preceding response
\* returned, from the empty list) no id is returned twice, at most |pool|
\* calls succeed, and the request that finds nothing unseen is answered
\* "exhausted".
C3_SessionEndsExhausted ==
    /\ SessionServedOnce
    /\ request.op = "play" => Len(request.previous_questions) <= Cardinality(Scope)
    /\ (PlayHandled /\ Unseen = {}) => ExhaustedOutcome

\* C4: a play request with an unseen question in scope is eventually
\* answered with an unseen question of its scope; with exactly one unseen
\* question, the answer is that question.
C4_UnseenIsReturned ==
    /\ (pc = "play" /\ Unseen # {}) ~> (pc = "idle" /\ PlaySucceeded /\ response.question.id \in Unseen)
    /\ []((PlaySucceeded /\ Cardinality(Unseen) = 1) => Unseen = {response.question.id})

\* Pool = {Q1, Q2}, previous_questions = [Q1], answered with Q2.
C4_Witness ==
    /\ PlaySucceeded
    /\ Cardinality(Scope) = 2
    /\ Len(request.previous_questions) = 1
    /\ Range(request.previous_questions) \subseteq Scope
    /\ Unseen = {response.question.id}

\* GET /categories/<id>/questions with an id that is no category answers 404
\* RESOURCE NOT FOUND (the half of C5 that the code does guarantee).
UnknownCategoryListingNotFound ==
    (request.op = "get_questions_by_category" /\ request.id \notin categories)
        => response = not_found

\* C5: a category selector that is no known category is answered with a
\* client error (4xx): by play for an unknown quiz_category.id, and by
\* GET /categories/<id>/questions (404 RESOURCE NOT FOUND) for an unknown id.
C5_UnknownCategoryIsClientError ==
    /\ UnknownCategoryListingNotFound
    /\ (PlayHandled /\ request.quiz_category \notin categories \cup {0})
          => (pc = "idle" /\ response.status \in 400..499)

\* C6: on a successful play response, previous_questions is the request's
\* list, in order, with the returned question's id appended.
C6_PreviousAppended ==
    PlaySucceeded =>
        /\ response.previous_questions
              = Append(request.previous_questions, response.question.id)
        /\ Len(response.previous_questions) = Len(request.previous_questions) + 1
        /\ \A i \in 1..Len(request.previous_questions) :
              response.previous_questions[i] = request.previous_questions[i]

\* A request that sent a non-empty list has been answered with a question.
C6_Witness == PlaySucceeded /\ Len(request.previous_questions) >= 1

\* C7: DELETE /questions/<id> answers 200 and leaves exactly the other
\* questions if the id is stored, and answers 404 RESOURCE NOT FOUND and
\* leaves the store as it was if it is not.
C7_DeleteExactlyThatQuestion ==
    [][request'.op = "delete_question" =>
          IF request'.id \in DOMAIN questions
          THEN /\ response'.status = 200
               /\ DOMAIN questions' = (DOMAIN questions) \ {request'.id}
               /\ \A i \in DOMAIN questions' : questions'[i] = questions[i]
          ELSE /\ response' = not_found
               /\ questions' = questions]_vars

\* A stored question has been deleted, and another one is still stored.
C7_Witness ==
    /\ request.op = "delete_question"
    /\ response.status = 200
    /\ request.id \notin DOMAIN questions
    /\ DOMAIN questions # {}

Positions(s, lo, hi) ==
    IF Max(lo, 0) < Min(hi, Len(s)) THEN SubSeq(s, Max(lo, 0) + 1, Min(hi, Len(s))) ELSE <<>>

PageSliceOf(p) ==
    Positions(AllQuestions(questions), (p - 1) * QUESTIONS_PER_PAGE, p * QUESTIONS_PER_PAGE)

\* GET /questions answers with the page slice and the store's size, and with
\* 404 RESOURCE NOT FOUND when the slice is empty.
AnswersPage(p) ==
    IF PageSliceOf(p) = <<>> THEN response = not_found
    ELSE /\ response.status = 200
         /\ response.questions = PageSliceOf(p)
         /\ Len(response.questions) <= QUESTIONS_PER_PAGE
         /\ response.total_questions = Cardinality(DOMAIN questions)

\* For the pages from 1 on, GET /questions?page=p answers as C9 says (the
\* part of C9 that the code does guarantee).
PositivePageAnswered ==
    (request.op = "get_questions" /\ PageOf(request.page) >= 1)
        => AnswersPage(PageOf(request.page))

\* C9: GET /questions?page=p returns the questions at the positions
\* (p-1)*10 up to p*10 (exclusive) of the id-ordered list of all questions,
\* at most 10, with total_questions the size of the store, and answers 404
\* RESOURCE NOT FOUND exactly when no question is at these positions.
C9_PageOfTen == request.op = "get_questions" => AnswersPage(PageOf(request.page))

\* The two branches of play, with nothing unseen in scope: an empty
\* pool ends in a server error, a pool that is not empty keeps the handler
\* in its loop, whether or not a category filter is active.
ExhaustedPoolOutcome ==
    (PlayHandled /\ Unseen = {}) =>
        IF Scope = {} THEN pc = "idle" /\ response = server_error
        ELSE pc = "play" /\ response = NoResponse

=============================================================================
